---- MODULE Spec2Model ----
(***************************************************************************)
(* Model of the IUU-fishing incident service (src/app): the document store *)
(* with its Source and IncidentReport collections, the URL/text submission *)
(* pipeline (routes -> IncidentService -> AnalysisOrchestrator ->          *)
(* _create_report) and the operations that maintain the Source <->         *)
(* IncidentReport links (add_source, remove_source, delete, update_report, *)
(* delete_source).                                                         *)
(*                                                                         *)
(* Every `await` on the database in a submission is a step of its own, so  *)
(* that concurrent submissions interleave where the event loop lets them.  *)
(* The scraper, the classifier and the extractors are external calls: each *)
(* either returns a value drawn from a small set or raises.  Writes of a   *)
(* Source fail on a unique-index violation; the writes of an               *)
(* IncidentReport in the incident loop of _create_report succeed or raise. *)
(* Link lists hold document ids.                                           *)
(*                                                                         *)
(* Seven specifications share the variables: Spec (submissions), SpecLinks *)
(* (link maintenance on a populated database), SpecAddRemove (add_source   *)
(* and remove_source alone), SpecSource (save and                          *)
(* replace of a persisted Source), SpecFilter (one call of                 *)
(* ContentFilter.filter_content), SpecDup (one call of                     *)
(* IncidentReport.find_potential_duplicates) and SpecPdf (one call of      *)
(* read_pdf).                                                              *)
(***************************************************************************)
EXTENDS Integers, Sequences, FiniteSets, TLC

\* ---- bounds of the model -------------------------------------------------
NumRequests == 2
NumUrls == 2
NumTexts == 2
MaxSources == 2
MaxIncidents == 2
MaxLinks == 1
MaxInFlight == 2
MaxSpans == 2
MaxElements == 3
MaxPersisted == 2   \* incidents in the collection that is searched
MaxPages == 4       \* pages of a PDF
RecursionLimit == 3 \* nested calls before the interpreter's RecursionError

Runs == 1..NumRequests
Urls == 1..NumUrls
Texts == 1..NumTexts
SourceIds == 1..MaxSources
IncidentIds == 1..MaxIncidents

\* ---- optional values and list helpers -------------------------------------
None == <<>>
Some(x) == <<x>>

InSeq(x, sq) == \E k \in 1..Len(sq) : sq[k] = x

Without(sq, x) ==
  LET Keep(e) == e # x IN SelectSeq(sq, Keep)

SeqsUpTo(S, n) == UNION {[1..k -> S] : k \in 0..n}

Upsert(f, k, v) == [x \in DOMAIN f \cup {k} |-> IF x = k THEN v ELSE f[x]]

Remove(f, k) == [x \in DOMAIN f \ {k} |-> f[x]]

\* ---- enumerations ---------------------------------------------------------
Scopes ==
  {"Single Incident", "Multiple Incidents", "Industry Overview",
   "Unrelated to IUU Fishing"}

PipelineResult ==
  {"success", "failed_extraction", "failed_classification", "failed_analysis",
   "failed_formatting", "unrelated_content"}

\* hashlib.sha256(text).hexdigest(): injective on the texts of the model, and
\* never equal to a text itself.
Sha256(t) == <<"sha256", t>>

VARIABLES
  sources,        \* collection "sources":   id -> persisted Source
  incidents,      \* collection "incidents": id -> persisted IncidentReport
  overviews,      \* collection "industry_overviews": source ids with an overview
  logs,           \* collection "logs": the Log entries, oldest first
  nextSourceId,   \* ids handed out so far (ObjectIds are never reused)
  nextIncidentId,
  run,            \* the in-flight submissions
  flt,            \* the ContentFilter.filter_content call in progress
  dup,            \* the IncidentReport.find_potential_duplicates call
  pdf,            \* the read_pdf call in progress
  last            \* the operation that produced the current state

vars ==
  <<sources, incidents, overviews, logs, nextSourceId, nextIncidentId, run, flt,
    dup, pdf, last>>

\* The calls of the three functions that are modelled on their own.
lib == <<flt, dup, pdf>>

store == <<sources, incidents, overviews, logs, nextSourceId, nextIncidentId>>

\* ---- the audit log ---------------------------------------------------------
\* The operations after which the document class of a collection writes a
\* Log entry.  The hooks are methods of LogMixin; Source and IncidentReport
\* derive from Document alone, so neither class has them.
LogHooks(collection_name) == {}

Entry(collection_name, operation) ==
  [collection_name |-> collection_name, operation |-> operation]

\* The logs collection after the writes `entries` were made, in order.
Logged(entries) ==
  LET Hooked(e) == e.operation \in LogHooks(e.collection_name)
  IN logs \o SelectSeq(entries, Hooked)

\* ---- ContentFilter ---------------------------------------------------------
MIN_CONTENT_LENGTH == 150

\* An HTML document, as far as the filter can tell documents apart: whether
\* it has a <body>, whether the final unwrapping was applied, and its elements
\* in document order, each with the stage that strips it ("text": none) and
\* the length of its visible text.
Kinds == {"structural", "media", "pattern", "text"}

Lengths == {50, 100}

Docs ==
  [body : BOOLEAN, unwrapped : {FALSE},
   elems : SeqsUpTo([kind : Kinds, len : Lengths], MaxElements)]

\* The tags that each stage decomposes.
StageKind == <<"structural", "media", "pattern">>

RECURSIVE SumLen(_)
SumLen(elems) ==
  IF elems = <<>> THEN 0 ELSE Head(elems).len + SumLen(Tail(elems))

\* len(soup.get_text(strip=True))
get_text_len(soup) == SumLen(soup.elems)

\* stage1_action, stage2_action, stage3_action
stage_action(k, soup) ==
  LET Keep(e) == e.kind # StageKind[k]
  IN [soup EXCEPT !.elems = SelectSeq(@, Keep)]

\* ContentFilter._run_stage
run_stage_keeps_result(k, soup, last_successful_html) == stage_action(k, soup)

run_stage(k, soup, last_successful_html) ==
  LET cut == stage_action(k, soup)
  IN IF get_text_len(cut) < MIN_CONTENT_LENGTH
       THEN last_successful_html
       ELSE cut

\* filter_content after the stages: without a <body> the original HTML is
\* returned; otherwise links and non-structural tags are unwrapped, which
\* keeps their text.
final_processing(original_html, last_successful_html) ==
  IF ~last_successful_html.body
    THEN original_html
    ELSE [last_successful_html EXCEPT !.unwrapped = TRUE]

\* No filter call is in progress.
NoFilter == [pc |-> 0, html |-> <<>>, output |-> None]

\* ---- IncidentReport fingerprints and the duplicate search -------------------
\* Strings are sequences of tokens; an optional string is None or Some(string).
VesselNames ==
  {None, Some(<<>>), Some(<<"default_vessel">>), Some(<<"Vessel A">>)}

EventDates == {None, Some(<<"2024-01-01">>)}

EventLocations == {None, Some(<<"Lagos">>)}

\* ExtractedIncidentData, as far as the fingerprint and the search read it.
\* A missing catchSourceInformation or eventData reads as None here.
IncidentData ==
  [vesselName : VesselNames, eventDate : EventDates,
   eventLocation : EventLocations]

\* Python truth of an optional string.
Truthy(x) == x # None /\ x[1] # <<>>

\* @before_event([Insert, Replace]) generate_fingerprint, for a document
\* whose incident_fingerprint is not set.
generate_fingerprint(d) ==
  LET location == IF Truthy(d.eventLocation) THEN d.eventLocation[1]
                  ELSE <<"default_location">>
      date == IF Truthy(d.eventDate) THEN d.eventDate[1] ELSE <<"default_date">>
      name == IF Truthy(d.vesselName) THEN d.vesselName[1]
              ELSE <<"default_vessel">>
  IN Sha256(name \o <<"_">> \o date \o <<"_">> \o location)

\* An IncidentReport as insert() leaves it in the collection.
InsertedIncident(d) ==
  [extracted_information |-> d, incident_fingerprint |-> generate_fingerprint(d)]

\* IncidentReport.find_potential_duplicates: the positions of the documents
\* that the query returns.
find_potential_duplicates(persisted, incident_data) ==
  LET vessel_name == incident_data.vesselName
  IN IF Truthy(vessel_name)
       THEN {i \in DOMAIN persisted :
               persisted[i].extracted_information.vesselName = vessel_name}
       ELSE {}

\* No search is in progress.
NoDup == [pc |-> 0, persisted |-> <<>>, candidate |-> None, result |-> {}]

\* ---- read_pdf ---------------------------------------------------------------
\* The stripped text lengths that a page can have.
PageLengths == {0, 6}

\* A PDF, as far as read_pdf can tell PDFs apart: whether fitz can open it,
\* the text length of each page, and whether OCR finds text on its images.
Pdfs ==
  [opens : BOOLEAN, pages : SeqsUpTo(PageLengths, MaxPages) \ {<<>>},
   ocr_text : BOOLEAN]

RECURSIVE text_len(_, _)
text_len(pages, n) ==
  IF n = 0 THEN 0 ELSE pages[n] + text_len(pages, n - 1)

Returned(via) == [ok |-> TRUE, via |-> via]

Raised(error) == [ok |-> FALSE, via |-> error]

\* extract_text_pdf
extract_text_pdf(pdf_bytes) ==
  IF ~pdf_bytes.opens THEN Raised("Exception")
  ELSE IF text_len(pdf_bytes.pages, Len(pdf_bytes.pages)) = 0
    THEN Raised("ValueError")
  ELSE Returned("text")

\* ocr_pdf_with_pytesseract
ocr_pdf_with_pytesseract(pdf_bytes) ==
  IF pdf_bytes.ocr_text THEN Returned("ocr") ELSE Raised("ValueError")

\* needs_ocr_sampled
needs_ocr_sampled(pdf_bytes, sample_pages, min_text_length) ==
  IF ~pdf_bytes.opens THEN TRUE
  ELSE LET total_pages == Len(pdf_bytes.pages)
           pages_to_check == IF sample_pages < total_pages THEN sample_pages
                             ELSE total_pages
       IN text_len(pdf_bytes.pages, pages_to_check) < min_text_length

\* No read_pdf call is in progress.
NoPdf == [pc |-> "none", pdf_bytes |-> None, depth |-> 0, result |-> None]

\* ---- documents ------------------------------------------------------------
\* Source(article_text=..., url=...) with the model validator's hash.
NewSource(t, u) ==
  [id |-> None, url |-> Some(u), article_text |-> t, article_hash |-> Sha256(t),
   article_scope |-> None, incidents |-> <<>>]

\* @before_event([Insert, Replace]) generate_hash
generate_hash_once(src) == src

generate_hash(src) == [src EXCEPT !.article_hash = Sha256(src.article_text)]

SourceDoc(src) ==
  [url |-> src.url, article_text |-> src.article_text,
   article_hash |-> src.article_hash, article_scope |-> src.article_scope,
   incidents |-> src.incidents]

LoadSource(s) ==
  [id |-> Some(s), url |-> sources[s].url,
   article_text |-> sources[s].article_text,
   article_hash |-> sources[s].article_hash,
   article_scope |-> sources[s].article_scope,
   incidents |-> sources[s].incidents]

NewIncident == [id |-> None, sources |-> <<>>, primary_source |-> None]

IncidentDoc(inc) ==
  [sources |-> inc.sources, primary_source |-> inc.primary_source]

LoadIncident(i) ==
  [id |-> Some(i), sources |-> incidents[i].sources,
   primary_source |-> incidents[i].primary_source]

\* The unique indexes of the sources collection: the <<index, document>>
\* pairs that a write of `src` under id `sid` collides with.  The url index
\* is partial: only documents whose url is a string take part.
UniqueIndexesNoHash(src, sid) ==
  {<<"url", s>> : s \in {d \in DOMAIN sources \ {sid} :
                           src.url # None /\ sources[d].url = src.url}}

UniqueIndexes(src, sid) ==
  {<<"article_hash", s>> : s \in {d \in DOMAIN sources \ {sid} :
                                    sources[d].article_hash = src.article_hash}}
    \cup {<<"url", s>> : s \in {d \in DOMAIN sources \ {sid} :
                                  src.url # None /\ sources[d].url = src.url}}

\* The _id index: an insert of a document whose id is already persisted.
PrimaryKey(src) ==
  IF src.id # None /\ src.id[1] \in DOMAIN sources
    THEN {<<"_id", src.id[1]>>} ELSE {}

\* ---- the link operations of IncidentReport --------------------------------
\* add_source, first half: the incident side (up to `await self.save()`).
add_source_self_keep_primary(inc, sid, is_primary) ==
  [inc EXCEPT !.sources = IF InSeq(sid, @) THEN @ ELSE Append(@, sid)]

add_source_self_promotes_only(inc, sid, is_primary) ==
  [inc EXCEPT !.primary_source = IF is_primary THEN Some(sid) ELSE @]

add_source_self(inc, sid, is_primary) ==
  [inc EXCEPT
     !.sources = IF InSeq(sid, @) THEN @ ELSE Append(@, sid),
     !.primary_source = IF is_primary THEN Some(sid) ELSE @]

\* add_source, second half: the back-reference on the source.
add_source_back_always_appends(src, iid) ==
  [src EXCEPT !.incidents = Append(@, iid)]

add_source_back(src, iid) ==
  [src EXCEPT !.incidents = IF InSeq(iid, @) THEN @ ELSE Append(@, iid)]

\* remove_source: the incident after the removal.
remove_source_self_keep_primary(inc, sid) ==
  [inc EXCEPT !.sources = Without(@, sid)]

remove_source_self(inc, sid) ==
  LET remaining == Without(inc.sources, sid)
  IN [inc EXCEPT
        !.sources = remaining,
        !.primary_source =
          IF @ = Some(sid)
            THEN (IF remaining # <<>> THEN Some(Head(remaining)) ELSE None)
            ELSE @]

\* remove_source: the source after the removal.
remove_source_back(src, iid) == [src EXCEPT !.incidents = Without(@, iid)]

\* ---- submissions ----------------------------------------------------------
\* The local state of a request handler between two awaits; `seen` records
\* the sources that were persisted when the request arrived.
IdleRun ==
  [pc |-> "idle", url |-> None, seen |-> {}, src |-> None, inc |-> None,
   status |-> "none", pending |-> 0, has_overview |-> FALSE,
   classifier_calls |-> 0, extractor_calls |-> 0,
   cause |-> "none", spans |-> <<>>, created |-> 0]

\* The handler has returned: its local objects are gone.
DoneRun == [IdleRun EXCEPT !.pc = "done"]

\* The record of the operation that produced the current state.
Op(name) ==
  [op |-> name, inc |-> None, src |-> None, is_primary |-> FALSE,
   was_primary |-> FALSE, code |-> 0, status |-> "none", source_id |-> None,
   detail_url |-> None, dup |-> None, dup_keys |-> {}, url |-> None,
   was_linked |-> FALSE,
   classifier_calls |-> 0, extractor_calls |-> 0,
   scope |-> None, cause |-> "none", spans |-> <<>>, created |-> 0,
   fresh |-> FALSE]

\* The answer to the URL submission r.
Response_without_source(r, code, status, source_id) ==
  [Op("submit_url") EXCEPT
     !.code = code, !.status = status, !.url = run[r].url,
     !.classifier_calls = run[r].classifier_calls,
     !.extractor_calls = run[r].extractor_calls,
     !.scope = IF run[r].src = None THEN None ELSE run[r].src[1].article_scope,
     !.cause = run[r].cause, !.spans = run[r].spans,
     !.created = run[r].created]

Response(r, code, status, source_id) ==
  [Op("submit_url") EXCEPT
     !.code = code, !.status = status, !.source_id = source_id,
     !.url = run[r].url,
     !.classifier_calls = run[r].classifier_calls,
     !.extractor_calls = run[r].extractor_calls,
     !.scope = IF run[r].src = None THEN None ELSE run[r].src[1].article_scope,
     !.cause = run[r].cause, !.spans = run[r].spans,
     !.created = run[r].created,
     !.fresh = (source_id # None /\ \A s \in run[r].seen : source_id # Some(s))]

Init ==
  /\ sources = <<>>
  /\ incidents = <<>>
  /\ overviews = {}
  /\ logs = <<>>
  /\ nextSourceId = 1
  /\ nextIncidentId = 1
  /\ run = [r \in Runs |-> IdleRun]
  /\ flt = NoFilter
  /\ dup = NoDup
  /\ pdf = NoPdf
  /\ last = Op("init")

\* Requests are numbered in the order in which they arrive; at most
\* MaxInFlight of them are being handled at a time.
InFlight == {q \in Runs : run[q].pc \notin {"idle", "done"}}

Arrives(r) ==
  /\ run[r].pc = "idle"
  /\ \A q \in Runs : q < r => run[q].pc # "idle"
  /\ Cardinality(InFlight) < MaxInFlight

\* _check_for_existing_url
check_for_existing_url_off(u) == {}

check_for_existing_url(u) == {s \in DOMAIN sources : sources[s].url = Some(u)}

\* POST /incidents with {"url": u}: _handle_json_request up to the call of
\* create_report_from_url.
HandleUrlRequest(r, u) ==
  /\ Arrives(r)
  /\ IF check_for_existing_url(u) # {}
       THEN /\ run' = [run EXCEPT ![r] = DoneRun]
            /\ last' = [Op("submit_url") EXCEPT !.code = 409, !.status = "error",
                                                !.url = Some(u), !.detail_url = Some(u)]
       ELSE /\ run' = [run EXCEPT ![r].pc = "from_url", ![r].url = Some(u),
                                    ![r].seen = DOMAIN sources]
            /\ last' = Op("step")
  /\ UNCHANGED store
  /\ UNCHANGED lib

\* POST /incidents with {"text": t}: create_report_from_text calls
\* AnalysisOrchestrator.run_full_analysis_from_text, which the orchestrator
\* does not define; the AttributeError becomes the handler's 500.
HandleTextRequest(r, t) ==
  /\ Arrives(r)
  /\ run' = [run EXCEPT ![r] = DoneRun]
  /\ last' = [Op("submit_text") EXCEPT !.code = 500, !.status = "error"]
  /\ UNCHANGED store
  /\ UNCHANGED lib

\* The PipelineOutput of run_full_analysis_from_url when from_url raises: the
\* fetch or the content filter failed and there is no source.
FailedExtractionOutput_with_analysis(r) ==
  [Response(r, 201, "failed_analysis", None) EXCEPT
     !.cause = "normalizer", !.classifier_calls = 1]

FailedExtractionOutput(r) ==
  [Response(r, 201, "failed_extraction", None) EXCEPT !.cause = "normalizer"]

\* ContentExtractor.from_url, and the FAILED_EXTRACTION return of the
\* orchestrator when it raises (_create_report then returns the output as is).
FromUrl(r) ==
  /\ run[r].pc = "from_url"
  /\ LET u == run[r].url[1]
         existing == {s \in DOMAIN sources : sources[s].url = Some(u)}
     IN IF existing # {}
          THEN /\ \E s \in existing :
                    run' = [run EXCEPT ![r].src = Some(LoadSource(s)),
                                       ![r].pc = "analyse"]
               /\ last' = Op("step")
          ELSE \/ /\ \E t \in Texts :
                       run' = [run EXCEPT ![r].src = Some(NewSource(t, u)),
                                          ![r].pc = "analyse"]
                  /\ last' = Op("step")
               \/ /\ run' = [run EXCEPT ![r] = DoneRun]
                  /\ last' = FailedExtractionOutput(r)
  /\ UNCHANGED store
  /\ UNCHANGED lib

\* SourceScope.run as AnalysisPipeline.run calls it: the scopes the source can
\* have after it, and whether the classifier was called.  A raising
\* classifier leaves the scope unset.
SourceScopeRun_reclassifies(src) ==
  {[scope |-> Some(sc), calls |-> 1] : sc \in Scopes}
    \cup {[scope |-> None, calls |-> 1]}

SourceScopeRun(src) ==
  IF src.article_scope # None
    THEN {[scope |-> src.article_scope, calls |-> 0]}
    ELSE {[scope |-> Some(sc), calls |-> 1] : sc \in Scopes}
           \cup {[scope |-> None, calls |-> 1]}

\* The per-incident text spans of a "Multiple Incidents" document, in order:
\* for each span, whether the extractor would return a valid structure for it.
SpanOutcomes == SeqsUpTo(BOOLEAN, MaxSpans) \ {<<>>}

\* The routing of AnalysisPipeline.run and the orchestrator's mapping of the
\* prediction to a PipelineOutput, for a classified source: the possible
\* (status, number of incidents, overview present, extractor calls), and
\* the call whose failure led to the status.
Route_reports_nothing(scope) ==
  {[status |-> "success", pending |-> 0, has_overview |-> FALSE, calls |-> 1,
    cause |-> "none"]}

Route_always_extracts(scope) ==
  {[status |-> "success", pending |-> 0, has_overview |-> TRUE, calls |-> 1,
    cause |-> "none"]}

Route(scope) ==
  LET Out(st, n, ov, calls, cause) ==
        [status |-> st, pending |-> n, has_overview |-> ov, calls |-> calls,
         cause |-> cause]
  IN CASE scope = "Unrelated to IUU Fishing" ->
            {Out("unrelated_content", 0, FALSE, 0, "none")}
       [] scope = "Industry Overview" ->
            {Out("success", 0, TRUE, 1, "none"),
             Out("failed_analysis", 0, FALSE, 1, "extractor"),
             Out("failed_formatting", 0, FALSE, 1, "formatter")}
       [] scope = "Multiple Incidents" ->
            \* IncidentAnalysisModule.aforward reads self.multiIncident, which
            \* __init__ never sets: the branch raises before any call.
            {Out("failed_analysis", 0, FALSE, 0, "splitter")}
       [] scope = "Single Incident" ->
            {Out("success", 1, FALSE, 1, "none"),
             Out("failed_analysis", 0, FALSE, 1, "extractor"),
             Out("failed_formatting", 0, FALSE, 1, "formatter")}

\* AnalysisOrchestrator.run_full_analysis_from_url after from_url: the
\* pipeline run (classifier, then the extractor of the scope) and the
\* PipelineOutput built from it.  No step of it touches the database.
Analyse(r) ==
  /\ run[r].pc = "analyse"
  /\ \E c \in SourceScopeRun(run[r].src[1]) :
       LET src == [run[r].src[1] EXCEPT !.article_scope = c.scope]
       IN IF c.scope = None
            THEN run' = [run EXCEPT ![r].classifier_calls = @ + c.calls,
                                    ![r].status = "failed_analysis",
                                    ![r].cause = "classifier",
                                    ![r].pc = "insert_source"]
            ELSE \E o \in Route(c.scope[1]) :
                 \E sp \in IF c.scope[1] = "Multiple Incidents"
                              THEN SpanOutcomes ELSE {<<>>} :
                   run' = [run EXCEPT
                             ![r].src = Some(src),
                             ![r].classifier_calls = @ + c.calls,
                             ![r].extractor_calls = @ + o.calls,
                             ![r].status = o.status,
                             ![r].pending = o.pending,
                             ![r].has_overview = o.has_overview,
                             ![r].cause = o.cause,
                             ![r].spans = sp,
                             ![r].pc = "insert_source"]
  /\ last' = Op("step")
  /\ UNCHANGED store
  /\ UNCHANGED lib

\* IncidentService._create_report up to the first incident/overview insert.
\* An exception of source.insert() is re-raised and becomes the 500 of
\* _handle_json_request.
InsertSource(r) ==
  /\ run[r].pc = "insert_source"
  /\ LET src == generate_hash(run[r].src[1])
         sid == IF src.id = None THEN nextSourceId ELSE src.id[1]
         clash == PrimaryKey(src) \cup UniqueIndexes(src, 0)
     IN IF clash # {}
          THEN /\ run' = [run EXCEPT ![r] = DoneRun]
               /\ \E d \in {c[2] : c \in clash} :
                    last' = [Response(r, 500, "error", None) EXCEPT
                               !.dup = Some(d),
                               !.dup_keys = {c[1] : c \in {x \in clash : x[2] = d}}]
               /\ UNCHANGED store
          ELSE /\ sid <= MaxSources
               /\ sources' = Upsert(sources, sid, SourceDoc(src))
               /\ nextSourceId' = IF src.id = None THEN nextSourceId + 1 ELSE nextSourceId
               /\ LET saved == Some([src EXCEPT !.id = Some(sid)])
                      Return(code, st, ref) ==
                        /\ run' = [run EXCEPT ![r] = DoneRun]
                        /\ last' = Response(r, code, st, ref)
                      Continue(pc) ==
                        /\ run' = [run EXCEPT ![r].src = saved, ![r].pc = pc]
                        /\ last' = [Op("step") EXCEPT !.src = Some(sid)]
                  IN IF run[r].status = "unrelated_content"
                       THEN Return(201, run[r].status, Some(sid))
                     ELSE IF run[r].pending = 0 /\ ~run[r].has_overview
                       THEN Return(201, run[r].status, Some(sid))
                     ELSE IF run[r].status # "success"
                       THEN Return(422, "error", None)
                     ELSE IF run[r].pending > 0
                       THEN Continue("insert_incident")
                     ELSE Continue("insert_overview")
               /\ logs' = Logged(<<Entry("sources", "insert")>>)
               /\ UNCHANGED <<incidents, overviews, nextIncidentId>>
  /\ UNCHANGED lib

\* The answer to the submission r when a write of its incident loop raises:
\* the exception leaves _create_report and becomes the 500 of
\* _handle_json_request.
WriteFailed(r) ==
  [Response(r, 500, "error", None) EXCEPT
     !.cause = "database",
     !.inc = IF run[r].inc = None THEN None ELSE run[r].inc[1].id,
     !.src = run[r].src[1].id]

\* _create_report: `await incident.insert()` of the loop, and its
\* `except Exception: raise e` when the insert fails.
InsertIncident(r) ==
  /\ run[r].pc = "insert_incident"
  /\ nextIncidentId <= MaxIncidents
  /\ \/ /\ incidents' = Upsert(incidents, nextIncidentId, IncidentDoc(NewIncident))
        /\ nextIncidentId' = nextIncidentId + 1
        /\ run' = [run EXCEPT
                     ![r].inc = Some([NewIncident EXCEPT !.id = Some(nextIncidentId)]),
                     ![r].created = @ + 1,
                     ![r].pc = "add_source_self"]
        /\ last' = [Op("step") EXCEPT !.inc = Some(nextIncidentId)]
        /\ logs' = Logged(<<Entry("incidents", "insert")>>)
        /\ UNCHANGED <<sources, overviews, nextSourceId>>
     \/ /\ run' = [run EXCEPT ![r] = DoneRun]
        /\ last' = [WriteFailed(r) EXCEPT !.inc = None]
        /\ UNCHANGED store
  /\ UNCHANGED lib

\* add_source(source, is_primary=True) of the loop, up to `await self.save()`,
\* and its `except Exception` when the save fails: the incident stays in the
\* collection as the insert wrote it.
AddSourceSelf(r) ==
  /\ run[r].pc = "add_source_self"
  /\ \/ /\ LET inc == add_source_self(run[r].inc[1], run[r].src[1].id[1], TRUE)
           IN /\ incidents' = Upsert(incidents, inc.id[1], IncidentDoc(inc))
              /\ run' = [run EXCEPT ![r].inc = Some(inc),
                                    ![r].pc = "add_source_back"]
        /\ last' = Op("step")
        /\ logs' = Logged(<<Entry("incidents", "update")>>)
        /\ UNCHANGED <<sources, overviews, nextSourceId, nextIncidentId>>
     \/ /\ run' = [run EXCEPT ![r] = DoneRun]
        /\ last' = WriteFailed(r)
        /\ UNCHANGED store
  /\ UNCHANGED lib

\* add_source of the loop, from `await self.save()` to its return, and the
\* loop's next iteration or the return of _create_report.  An exception of
\* source.save() leaves add_source and _create_report and becomes the 500.
AddSourceBack(r) ==
  /\ run[r].pc = "add_source_back"
  /\ LET old == run[r].src[1]
         src == add_source_back(old, run[r].inc[1].id[1])
         clash == IF src = old THEN {} ELSE UniqueIndexes(src, src.id[1])
         left == run[r].pending - 1
     IN IF clash # {}
          THEN /\ run' = [run EXCEPT ![r] = DoneRun]
               /\ \E d \in {c[2] : c \in clash} :
                    last' = [Response(r, 500, "error", None) EXCEPT
                               !.dup = Some(d),
                               !.dup_keys = {c[1] : c \in {x \in clash : x[2] = d}},
                               !.cause = "linker",
                               !.inc = run[r].inc[1].id, !.src = src.id]
               /\ UNCHANGED store
          ELSE /\ sources' = IF src = old THEN sources
                             ELSE Upsert(sources, src.id[1], SourceDoc(src))
               /\ IF left > 0
                    THEN /\ run' = [run EXCEPT ![r].src = Some(src), ![r].pending = left,
                                               ![r].pc = "insert_incident"]
                         /\ last' = Op("step")
                    ELSE /\ run' = [run EXCEPT ![r] = DoneRun]
                         /\ last' = [Response(r, 201, run[r].status, src.id) EXCEPT
                                       !.inc = run[r].inc[1].id, !.src = src.id,
                                       !.is_primary = TRUE]
               /\ logs' = Logged(IF src = old THEN <<>>
                                   ELSE <<Entry("sources", "update")>>)
               /\ UNCHANGED <<incidents, overviews, nextSourceId, nextIncidentId>>
  /\ UNCHANGED lib

\* _create_report: the industry-overview branch.
InsertOverview(r) ==
  /\ run[r].pc = "insert_overview"
  /\ overviews' = overviews \cup {run[r].src[1].id[1]}
  /\ run' = [run EXCEPT ![r] = DoneRun]
  /\ last' = Response(r, 201, run[r].status, run[r].src[1].id)
  /\ UNCHANGED <<sources, incidents, logs, nextSourceId, nextIncidentId>>
  /\ UNCHANGED lib

\* ---- link maintenance on persisted documents -------------------------------
\* IncidentReport.add_source on freshly loaded documents.
AddSource(i, s, is_primary) ==
  /\ i \in DOMAIN incidents
  /\ s \in DOMAIN sources
  /\ LET inc == add_source_self(LoadIncident(i), s, is_primary)
         src == add_source_back(LoadSource(s), i)
     IN /\ incidents' = [incidents EXCEPT ![i] = IncidentDoc(inc)]
        /\ sources' = [sources EXCEPT ![s] = SourceDoc(src)]
  /\ last' = [Op("add_source") EXCEPT
                !.inc = Some(i), !.src = Some(s), !.is_primary = is_primary,
                !.was_linked = InSeq(s, incidents[i].sources),
                !.was_primary = (incidents[i].primary_source = Some(s))]
  /\ logs' = Logged(<<Entry("incidents", "update")>>
                     \o (IF InSeq(i, sources[s].incidents) THEN <<>>
                         ELSE <<Entry("sources", "update")>>))
  /\ UNCHANGED <<overviews, nextSourceId, nextIncidentId, run>>
  /\ UNCHANGED lib

\* IncidentReport.remove_source on freshly loaded documents.
RemoveSource(i, s) ==
  /\ i \in DOMAIN incidents
  /\ s \in DOMAIN sources
  /\ LET inc == remove_source_self(LoadIncident(i), s)
         src == remove_source_back(LoadSource(s), i)
     IN /\ incidents' = [incidents EXCEPT ![i] = IncidentDoc(inc)]
        /\ sources' = [sources EXCEPT ![s] = SourceDoc(src)]
  /\ last' = [Op("remove_source") EXCEPT
                !.inc = Some(i), !.src = Some(s),
                !.was_linked = InSeq(s, incidents[i].sources),
                !.was_primary = (incidents[i].primary_source = Some(s))]
  /\ logs' = Logged((IF sources[s].incidents # <<>>
                       THEN <<Entry("sources", "update")>> ELSE <<>>)
                     \o <<Entry("incidents", "update")>>)
  /\ UNCHANGED <<overviews, nextSourceId, nextIncidentId, run>>
  /\ UNCHANGED lib

\* DELETE /incidents/{id}: delete_incident -> IncidentService.delete_report
\* -> IncidentReport.delete.  delete() calls self.remove_source(source)
\* without awaiting it: the coroutine never runs, so no source is loaded or
\* saved, and only the incident document goes.  The handler's
\* `except Exception` also catches the service's 404.
DeleteReport(i) ==
  /\ IF i \in DOMAIN incidents
       THEN /\ incidents' = Remove(incidents, i)
            /\ last' = [Op("delete_report") EXCEPT !.inc = Some(i), !.code = 204]
       ELSE /\ UNCHANGED incidents
            /\ last' = [Op("delete_report") EXCEPT !.code = 500]
  /\ logs' = Logged(IF i \in DOMAIN incidents
                      THEN <<Entry("incidents", "delete")>> ELSE <<>>)
  /\ UNCHANGED <<sources, overviews, nextSourceId, nextIncidentId, run>>
  /\ UNCHANGED lib

\* PUT /incidents/{id}: update_incident_report passes the whole dumped
\* IncidentReport of the request body, and IncidentService.update_report sets
\* every field of it that the model declares, the link fields included.
UpdateReport(i, new_sources, new_primary) ==
  /\ IF i \in DOMAIN incidents
       THEN /\ incidents' = [incidents EXCEPT ![i].sources = new_sources,
                                              ![i].primary_source = new_primary]
            /\ last' = [Op("update_report") EXCEPT !.inc = Some(i), !.code = 200]
       ELSE /\ UNCHANGED incidents
            /\ last' = [Op("update_report") EXCEPT !.code = 404]
  /\ logs' = Logged(IF i \in DOMAIN incidents
                      THEN <<Entry("incidents", "update")>> ELSE <<>>)
  /\ UNCHANGED <<sources, overviews, nextSourceId, nextIncidentId, run>>
  /\ UNCHANGED lib

\* SourceService.delete_source: Source.get, then Document.delete of the
\* source alone.
DeleteSource(s) ==
  /\ IF s \in DOMAIN sources
       THEN /\ sources' = Remove(sources, s)
            /\ last' = [Op("delete_source") EXCEPT !.src = Some(s), !.code = 204]
       ELSE /\ UNCHANGED sources
            /\ last' = [Op("delete_source") EXCEPT !.code = 404]
  /\ logs' = Logged(IF s \in DOMAIN sources
                        THEN <<Entry("sources", "delete")>> ELSE <<>>)
  /\ UNCHANGED <<incidents, overviews, nextSourceId, nextIncidentId, run>>
  /\ UNCHANGED lib

\* DELETE /sources/{id}: the handler calls SourceService.delete, which the
\* service does not define; the AttributeError becomes a 500.
DeleteSourceRoute(s) ==
  /\ last' = [Op("delete_source_route") EXCEPT !.code = 500]
  /\ UNCHANGED <<store, run>>
  /\ UNCHANGED lib

Next ==
  \/ \E r \in Runs, u \in Urls : HandleUrlRequest(r, u)
  \/ \E r \in Runs, t \in Texts : HandleTextRequest(r, t)
  \/ \E r \in Runs : FromUrl(r)
  \/ \E r \in Runs : Analyse(r)
  \/ \E r \in Runs : InsertSource(r)
  \/ \E r \in Runs : InsertIncident(r)
  \/ \E r \in Runs : AddSourceSelf(r)
  \/ \E r \in Runs : AddSourceBack(r)
  \/ \E r \in Runs : InsertOverview(r)
  \/ \E s \in SourceIds : DeleteSource(s)

\* Submissions, concurrent with each other and with deletions of sources.
Spec == Init /\ [][Next]_vars

\* ---- the link operations on a database left by earlier submissions --------
Min(a, b) == IF a < b THEN a ELSE b

\* What a completed submission of url k with text k leaves behind: a source
\* classified "Single Incident" with its incident linked as primary, or a
\* source classified unrelated.
SubmittedSource(k, linked, iid) ==
  [url |-> Some(k), article_text |-> k, article_hash |-> Sha256(k),
   article_scope |-> Some(IF linked THEN "Single Incident"
                          ELSE "Unrelated to IUU Fishing"),
   incidents |-> IF linked THEN <<iid>> ELSE <<>>]

\* The incident id of source k when the sources in `linked` have one each.
IncidentOf(k, linked) == Cardinality({j \in linked : j <= k})

InitLinks ==
  \E n \in 0..Min(Min(NumUrls, NumTexts), Min(MaxSources, NumRequests)) :
    \E linked \in SUBSET (1..n) :
      /\ Cardinality(linked) <= MaxIncidents
      /\ sources = [k \in 1..n |->
                      SubmittedSource(k, k \in linked, IncidentOf(k, linked))]
      /\ incidents = [i \in 1..Cardinality(linked) |->
                        LET k == CHOOSE j \in linked : IncidentOf(j, linked) = i
                        IN [sources |-> <<k>>, primary_source |-> Some(k)]]
      /\ overviews = {}
      /\ logs = <<>>
      /\ nextSourceId = n + 1
      /\ nextIncidentId = Cardinality(linked) + 1
      /\ run = [r \in Runs |-> IdleRun]
      /\ flt = NoFilter
      /\ dup = NoDup
      /\ pdf = NoPdf
      /\ last = Op("init")

NextLinks ==
  \/ \E i \in IncidentIds : DeleteReport(i)
  \/ \E i \in IncidentIds, s \in SourceIds, p \in BOOLEAN : AddSource(i, s, p)
  \/ \E i \in IncidentIds, s \in SourceIds : RemoveSource(i, s)
  \/ \E i \in IncidentIds, ns \in SeqsUpTo(SourceIds, MaxLinks),
        np \in {None} \cup {Some(s) : s \in SourceIds} : UpdateReport(i, ns, np)
  \/ \E s \in SourceIds : DeleteSource(s)
  \/ \E s \in SourceIds : DeleteSourceRoute(s)

SpecLinks == InitLinks /\ [][NextLinks]_vars

\* add_source and remove_source alone, in any order, on that database.
NextAddRemove ==
  \/ \E i \in IncidentIds, s \in SourceIds, p \in BOOLEAN : AddSource(i, s, p)
  \/ \E i \in IncidentIds, s \in SourceIds : RemoveSource(i, s)

SpecAddRemove == InitLinks /\ [][NextAddRemove]_vars

\* ---- save and replace of a persisted Source ---------------------------------
\* Document.save() of a loaded Source whose article_text and article_scope
\* were assigned: every field is written as it is in memory; the hooks of
\* Insert and Replace do not run.
SaveSource(s, t, sc) ==
  /\ s \in DOMAIN sources
  /\ LET src == [LoadSource(s) EXCEPT !.article_text = t, !.article_scope = sc]
         clash == UniqueIndexes(src, s)
     IN IF clash # {}
          THEN /\ UNCHANGED sources
               /\ last' = [Op("save_source") EXCEPT !.src = Some(s), !.code = 500]
          ELSE /\ sources' = [sources EXCEPT ![s] = SourceDoc(src)]
               /\ last' = [Op("save_source") EXCEPT !.src = Some(s), !.code = 200]
  /\ UNCHANGED <<incidents, overviews, logs, nextSourceId, nextIncidentId, run, flt, dup, pdf>>

\* Document.replace() of a loaded Source whose article_text and article_scope
\* were assigned: generate_hash runs before the write.
ReplaceSource(s, t, sc) ==
  /\ s \in DOMAIN sources
  /\ LET src == generate_hash([LoadSource(s) EXCEPT !.article_text = t,
                                                    !.article_scope = sc])
         clash == UniqueIndexes(src, s)
     IN IF clash # {}
          THEN /\ UNCHANGED sources
               /\ last' = [Op("replace_source") EXCEPT !.src = Some(s), !.code = 500]
          ELSE /\ sources' = [sources EXCEPT ![s] = SourceDoc(src)]
               /\ last' = [Op("replace_source") EXCEPT !.src = Some(s), !.code = 200]
  /\ UNCHANGED <<incidents, overviews, logs, nextSourceId, nextIncidentId, run, flt, dup, pdf>>

\* The values assigned to article_scope, the other field that changes.
Reclassified == {None, Some("Industry Overview")}

NextSource ==
  \/ \E s \in SourceIds, t \in Texts, sc \in Reclassified : SaveSource(s, t, sc)
  \/ \E s \in SourceIds, t \in Texts, sc \in Reclassified : ReplaceSource(s, t, sc)

SpecSource == InitLinks /\ [][NextSource]_vars

\* ---- ContentFilter.filter_content on one document --------------------------
\* flt.html holds the original HTML followed by last_successful_html after
\* each stage that has run; flt.pc is the stage to run next (4: the final
\* processing, 5: returned).
InitFilter ==
  /\ sources = <<>>
  /\ incidents = <<>>
  /\ overviews = {}
  /\ logs = <<>>
  /\ nextSourceId = 1
  /\ nextIncidentId = 1
  /\ run = [r \in Runs |-> IdleRun]
  /\ flt \in {[pc |-> 1, html |-> <<original_html>>, output |-> None] :
               original_html \in Docs}
  /\ dup = NoDup
  /\ pdf = NoPdf
  /\ last = Op("init")

\* One stage of filter_content: _run_stage on a fresh parse of
\* last_successful_html.
RunStage(k) ==
  /\ flt.pc = k
  /\ LET last_successful_html == flt.html[k]
     IN flt' = [flt EXCEPT
                  !.pc = k + 1,
                  !.html = Append(@, run_stage(k, last_successful_html,
                                              last_successful_html))]
  /\ UNCHANGED <<store, run, last, dup, pdf>>

\* filter_content from "Final Processing" to its return.
FinalProcessing ==
  /\ flt.pc = 4
  /\ flt' = [flt EXCEPT
               !.pc = 5,
               !.output = Some(final_processing(flt.html[1], flt.html[4]))]
  /\ UNCHANGED <<store, run, last, dup, pdf>>

NextFilter ==
  \/ \E k \in 1..3 : RunStage(k)
  \/ FinalProcessing

SpecFilter == InitFilter /\ [][NextFilter]_vars

\* ---- one call of find_potential_duplicates --------------------------------
InitDup ==
  /\ sources = <<>>
  /\ incidents = <<>>
  /\ overviews = {}
  /\ logs = <<>>
  /\ nextSourceId = 1
  /\ nextIncidentId = 1
  /\ run = [r \in Runs |-> IdleRun]
  /\ flt = NoFilter
  /\ dup \in {[pc |-> 1,
               persisted |-> [i \in DOMAIN ds |-> InsertedIncident(ds[i])],
               candidate |-> Some(c), result |-> {}] :
               ds \in SeqsUpTo(IncidentData, MaxPersisted), c \in IncidentData}
  /\ pdf = NoPdf
  /\ last = Op("init")

FindPotentialDuplicates ==
  /\ dup.pc = 1
  /\ dup' = [dup EXCEPT
               !.pc = 2,
               !.result = find_potential_duplicates(dup.persisted,
                                                    dup.candidate[1])]
  /\ UNCHANGED <<store, run, last, flt, pdf>>

NextDup == FindPotentialDuplicates

SpecDup == InitDup /\ [][NextDup]_vars

\* ---- one call of read_pdf ----------------------------------------------------
InitPdf ==
  /\ sources = <<>>
  /\ incidents = <<>>
  /\ overviews = {}
  /\ logs = <<>>
  /\ nextSourceId = 1
  /\ nextIncidentId = 1
  /\ run = [r \in Runs |-> IdleRun]
  /\ flt = NoFilter
  /\ dup = NoDup
  /\ pdf \in {[pc |-> "call", pdf_bytes |-> Some(b), depth |-> 1,
               result |-> None] : b \in Pdfs}
  /\ last = Op("init")

\* One activation of read_pdf: the OCR branch returns (or raises) to the
\* caller of the outermost activation; the other branch calls read_pdf with
\* the same bytes, and the interpreter raises RecursionError in place of the
\* call that would exceed its recursion limit.
ReadPdf ==
  /\ pdf.pc = "call"
  /\ LET pdf_bytes == pdf.pdf_bytes[1]
     IN IF needs_ocr_sampled(pdf_bytes, 3, 10)
          THEN pdf' = [pdf EXCEPT
                         !.pc = "done",
                         !.result = Some(ocr_pdf_with_pytesseract(pdf_bytes))]
        ELSE IF pdf.depth < RecursionLimit
          THEN pdf' = [pdf EXCEPT !.depth = @ + 1]
        ELSE pdf' = [pdf EXCEPT !.pc = "done",
                                !.result = Some(Raised("RecursionError"))]
  /\ UNCHANGED <<store, run, last, flt, dup>>

NextPdf == ReadPdf

SpecPdf == InitPdf /\ [][NextPdf]_vars

\* ---- properties ----------------------------------------------------------
\* No request is between two of its awaits.
Quiescent == \A r \in Runs : run[r].pc \in {"idle", "done"}

Linked(i, s) == i \in DOMAIN incidents /\ InSeq(s, incidents[i].sources)

BackLinked(i, s) == s \in DOMAIN sources /\ InSeq(i, sources[s].incidents)

\* C1: once every operation has finished, source S is in incident I's sources
\* exactly when I is in S's incidents, for all ids S and I.
C1_LinksBidirectional ==
  Quiescent =>
    \A i \in IncidentIds, s \in SourceIds : Linked(i, s) <=> BackLinked(i, s)

\* C2: no two persisted Sources share an article_hash.
C2_UniqueArticleHash ==
  \A s1, s2 \in DOMAIN sources :
    s1 # s2 => sources[s1].article_hash # sources[s2].article_hash

\* A submission whose text was already persisted has just been turned away,
\* and the text is persisted once.
C2_Witness ==
  /\ last.op = "submit_url"
  /\ "article_hash" \in last.dup_keys
  /\ last.dup[1] \in DOMAIN sources
  /\ Cardinality({s \in DOMAIN sources :
                    sources[s].article_hash = sources[last.dup[1]].article_hash}) = 1

\* C3: a submission whose article_hash equals that of a persisted Source is
\* answered with a successful DuplicateDetected outcome that references the
\* existing Source.
C3_DuplicateDetected ==
  (last.op = "submit_url" /\ "article_hash" \in last.dup_keys) =>
    /\ last.code < 400
    /\ last.status = "duplicate_detected"
    /\ last.source_id = last.dup

\* The URL u is that of a persisted Source.
Persisted(u) == \E s \in DOMAIN sources : sources[s].url = Some(u)

C5_DedupBeforeClassification ==
  [][\A r \in Runs :
       (\/ run'[r].classifier_calls > run[r].classifier_calls
        \/ run'[r].extractor_calls > run[r].extractor_calls) =>
         ~\E s \in run[r].seen \cap DOMAIN sources :
             sources[s].article_hash = run[r].src[1].article_hash]_vars

\* C6: a submission that passed the URL check and then lost the insert to a
\* concurrent submission of the same URL and text is answered with the
\* winner's Source, not with an error.
C6_LoserReturnsWinner ==
  (last.op = "submit_url" /\ {"url", "article_hash"} \subseteq last.dup_keys) =>
    /\ last.code < 400
    /\ last.source_id = last.dup

\* C7: after add_source(I, S, is_primary=True), S is in I.sources, I is in
\* S.incidents and I.primary_source is S.
C7_AddPrimaryLinksBothSides ==
  (last.op = "add_source" /\ last.is_primary) =>
    LET i == last.inc[1]
        s == last.src[1]
    IN /\ Linked(i, s)
       /\ BackLinked(i, s)
       /\ incidents[i].primary_source = Some(s)

\* add_source(I, S, True) has just linked and promoted a source that was
\* neither linked to I nor its primary source.
C7_Witness ==
  /\ last.op = "add_source"
  /\ last.is_primary
  /\ ~last.was_linked
  /\ ~last.was_primary
  /\ incidents[last.inc[1]].primary_source = last.src

\* C8: after remove_source(I, S) where S was I's primary source,
\* I.primary_source is the first remaining source, or null when none
\* remains; it is never S.
C8_PrimaryReassigned ==
  (last.op = "remove_source" /\ last.was_primary) =>
    LET inc == incidents[last.inc[1]]
    IN /\ inc.primary_source # last.src
       /\ ~InSeq(last.src[1], inc.sources)
       /\ IF inc.sources = <<>>
            THEN inc.primary_source = None
            ELSE inc.primary_source = Some(Head(inc.sources))

\* remove_source has just detached the primary source of an incident that
\* keeps another source, which became primary.
C8_Witness ==
  /\ last.op = "remove_source"
  /\ last.was_primary
  /\ last.was_linked
  /\ incidents[last.inc[1]].primary_source # None

\* C9: after the deletion of IncidentReport I, no persisted Source's
\* incidents list contains I's id.
C9_DeleteDetaches ==
  (last.op = "delete_report" /\ last.code = 204) =>
    \A s \in DOMAIN sources : ~InSeq(last.inc[1], sources[s].incidents)

\* C10: after delete_source has deleted Source S, no persisted IncidentReport
\* has S in its sources list or as its primary_source.
C10_NoStandaloneDelete ==
  (last.op = "delete_source" /\ last.code = 204) =>
    \A i \in DOMAIN incidents :
      /\ ~InSeq(last.src[1], incidents[i].sources)
      /\ incidents[i].primary_source # last.src

\* The number of spans of sp whose extraction would succeed.
Succeeding(sp) == Cardinality({k \in DOMAIN sp : sp[k]})

\* C11: a run on a Multiple Incidents document of which some spans fail
\* extraction and some succeed is not a failure as a whole and reports one
\* IncidentReport per succeeding span.
C11_PartialSuccess ==
  (/\ last.op = "submit_url"
   /\ last.scope = Some("Multiple Incidents")
   /\ last.dup_keys = {}
   /\ \E k \in DOMAIN last.spans : last.spans[k]
   /\ \E k \in DOMAIN last.spans : ~last.spans[k]) =>
    /\ last.status = "success"
    /\ last.created = Succeeding(last.spans)

FailureKinds == PipelineResult \ {"success", "unrelated_content"}

C15_DistinctFailureKinds ==
  (last.op = "submit_url" /\ last.dup_keys = {}) =>
    /\ last.cause = "classifier" => last.status = "failed_classification"
    /\ last.cause = "extractor" => last.status = "failed_extraction"

\* The documents that a step inserted into, changed in or deleted from a
\* collection.
DocsChanged(old, new) ==
  {k \in DOMAIN old \cup DOMAIN new :
     k \notin DOMAIN old \/ k \notin DOMAIN new \/ old[k] # new[k]}

\* C16: every step adds one Log entry for each Source and each IncidentReport
\* that it inserted, changed or deleted.
C16_OneLogPerWrite ==
  [][Len(logs') = Len(logs) + Cardinality(DocsChanged(sources, sources'))
                            + Cardinality(DocsChanged(incidents, incidents'))]_vars

\* Stage k has run and left fewer than MIN_CONTENT_LENGTH characters of
\* visible text.
Reverted(k) ==
  /\ k + 1 <= Len(flt.html)
  /\ get_text_len(stage_action(k, flt.html[k])) < MIN_CONTENT_LENGTH

\* C17 as stated: when a stage leaves fewer than MIN_CONTENT_LENGTH characters
\* of visible text, the next stage starts from the previous stage's output,
\* and when that stage is the third, the final output has the content of the
\* second stage's output.
C17_RevertedStageDiscarded ==
  /\ \A k \in 1..3 : Reverted(k) => flt.html[k + 1] = flt.html[k]
  /\ (Reverted(3) /\ flt.output # None) =>
       flt.output[1].elems = flt.html[3].elems

\* C17 as amended: the same for the stages; the final output is the second
\* stage's output with its links and non-structural tags unwrapped when the
\* document has a <body>, and the original HTML when it has none.
C17_RevertedStageDiscardedInBody ==
  /\ \A k \in 1..3 : Reverted(k) => flt.html[k + 1] = flt.html[k]
  /\ (Reverted(3) /\ flt.output # None) =>
       flt.output[1] = IF flt.html[3].body
                         THEN [flt.html[3] EXCEPT !.unwrapped = TRUE]
                         ELSE flt.html[1]

\* filter_content has returned for a document with a <body> of which the
\* first stage stripped an element and the third stage was discarded.
C17_Witness ==
  /\ flt.pc = 5
  /\ flt.html[1].body
  /\ flt.html[2] # flt.html[1]
  /\ Reverted(3)
  /\ stage_action(3, flt.html[3]) # flt.html[3]
  /\ flt.output[1].elems = flt.html[3].elems

\* C18 as stated: no save or replace of a persisted Source changes its
\* article_hash, whatever it does to article_text and the other fields.
C18_HashNeverChanges ==
  [][\A s \in DOMAIN sources \cap DOMAIN sources' :
       sources'[s].article_hash = sources[s].article_hash]_vars

\* C18 as amended: a save leaves the article_hash of the Source as it was; a
\* replace sets it to the hash of the article_text it writes, and so changes
\* it exactly when it writes a text with another hash.
C18_HashChangesOnlyOnReplace ==
  [][\A s \in DOMAIN sources \cap DOMAIN sources' :
       IF last'.op = "replace_source" /\ last'.src = Some(s) /\ last'.code = 200
         THEN sources'[s].article_hash = Sha256(sources'[s].article_text)
         ELSE sources'[s].article_hash = sources[s].article_hash]_vars

\* A replace has just written a Source with a text other than the one it was
\* first persisted with, and with the hash of that text.
C18_Witness ==
  /\ last.op = "replace_source"
  /\ last.code = 200
  /\ sources[last.src[1]].article_text # last.src[1]
  /\ sources[last.src[1]].article_hash = Sha256(sources[last.src[1]].article_text)

\* C19: when fetching or normalizing the input of a run raises, the run ends
\* there with the outcome failed_extraction and no source, it has called
\* neither the classifier nor an extractor, and it has persisted nothing.
C19_NormalizationFailure ==
  [][\A r \in Runs :
       (run[r].pc = "from_url" /\ run'[r].pc = "done") =>
         /\ last'.op = "submit_url"
         /\ last'.cause = "normalizer"
         /\ last'.status = "failed_extraction"
         /\ last'.source_id = None
         /\ last'.classifier_calls = 0
         /\ last'.extractor_calls = 0
         /\ last'.created = 0
         /\ run[r].src = None
         /\ UNCHANGED store]_vars

\* A run has just ended in a normalization failure while another run's Source
\* is persisted.
C19_Witness ==
  /\ last.op = "submit_url"
  /\ last.cause = "normalizer"
  /\ last.status = "failed_extraction"
  /\ last.url # None
  /\ sources # <<>>
  /\ \A s \in DOMAIN sources : sources[s].url # last.url

\* Incident i lists source s, s lists i, and the primary source of i is one
\* of its sources.
WellLinked(i, s) ==
  /\ Linked(i, s)
  /\ BackLinked(i, s)
  /\ incidents[i].primary_source # None
  /\ InSeq(incidents[i].primary_source[1], incidents[i].sources)

C21_PromotedAfterBothSaved ==
  \A i \in DOMAIN incidents : \A s \in DOMAIN sources :
    incidents[i].primary_source = Some(s) => InSeq(i, sources[s].incidents)

\* C22: when add_source has saved the incident and the save of the source
\* fails, the answer to the submission carries a partial-link status of its
\* own: it is none of the pipeline's extraction and analysis statuses, it is
\* not the status of an unexpected error that stored no link, and it is not
\* a success.
C22_PartialLinkSurfaced ==
  (last.op = "submit_url" /\ last.cause = "linker") =>
    /\ last.status \notin PipelineResult
    /\ last.status # "error"
    /\ last.code # 201

C24_ScopePersistedBeforeExtraction ==
  [][\A r \in Runs :
       run'[r].extractor_calls > run[r].extractor_calls =>
         \E s \in DOMAIN sources :
           /\ sources[s].url = run[r].url
           /\ sources[s].article_scope # None
           /\ sources[s].article_scope = run'[r].src[1].article_scope]_vars

\* C25: find_potential_duplicates returns every persisted IncidentReport
\* whose incident_fingerprint equals the fingerprint derived from the
\* candidate's vessel name, event date and event location, whether or not the
\* candidate has a vessel name.
C25_FingerprintMatchesReturned ==
  dup.pc = 2 =>
    \A i \in DOMAIN dup.persisted :
      dup.persisted[i].incident_fingerprint
          = generate_fingerprint(dup.candidate[1])
        => i \in dup.result

\* C26: read_pdf ends with the result of the OCR when needs_ocr_sampled is
\* true and with the result of the direct text extraction otherwise.
C26_ReadPdfReturns ==
  pdf.pc = "done" =>
    pdf.result =
      Some(IF needs_ocr_sampled(pdf.pdf_bytes[1], 3, 10)
             THEN ocr_pdf_with_pytesseract(pdf.pdf_bytes[1])
             ELSE extract_text_pdf(pdf.pdf_bytes[1]))

\* C27: DELETE /incidents/{id} for an id that is not persisted is answered
\* with 404 and changes no Source and no IncidentReport.
C27_DeleteMissingNotFound ==
  [][(last'.op = "delete_report" /\ last'.inc = None) =>
       (last'.code = 404 /\ UNCHANGED <<sources, incidents>>)]_vars

\* C28: after any sequence of add_source and remove_source calls, the primary
\* source of every IncidentReport, when it has one, is one of its sources.
C28_PrimaryAmongSources ==
  \A i \in DOMAIN incidents :
    incidents[i].primary_source # None =>
      InSeq(incidents[i].primary_source[1], incidents[i].sources)

\* remove_source has taken a source that was not the primary one from an
\* incident that add_source had given a second source.
C28_Witness ==
  /\ last.op = "remove_source"
  /\ last.was_linked
  /\ ~last.was_primary
  /\ incidents[last.inc[1]].primary_source # None
  /\ Len(incidents[last.inc[1]].sources) = 1

C30_NoIncidentWithoutSource ==
  \A i \in DOMAIN incidents :
    incidents[i].sources = <<>> =>
      \E r \in Runs :
        /\ run[r].pc = "add_source_self"
        /\ run[r].inc[1].id = Some(i)

====
